---- MODULE Spec2Model ----
(***************************************************************************)
(* Model of drivers/dma/bcm2708-dmaengine.c: one DMA channel of the        *)
(* BCM2708 cyclic DMA engine driver, its descriptors, its two pending      *)
(* lists, the active slot, the channel lock, the hardware channel's        *)
(* control/status bits, and the driver's entry points.                     *)
(*                                                                         *)
(* Every entry point that runs under c->vc.lock is one atomic action.      *)
(* bcm2708_dma_terminate_all is split at the points where hardware acts    *)
(* concurrently with it (each iteration of the poll loop) and where it     *)
(* drops the lock (before vchan_dma_desc_free_list).                       *)
(*                                                                         *)
(* Spec runs the poll loop with the scaled cap PollBound; SpecTimeout runs *)
(* it with the source's cap TIMEOUT in a reduced environment.              *)
(* SpecBuild runs slave_config, prepare_cyclic and status over both        *)
(* directions and several buffer shapes. SpecRace runs slave_config, which *)
(* takes no lock, with the struct copy into c->cfg as separate stores,     *)
(* against a concurrent prepare_cyclic.                                    *)
(***************************************************************************)
EXTENDS Integers, Sequences, FiniteSets, TLC

\* ------------------------------------------------------------------ bounds
\* number of descriptors prepare may allocate over a run
MaxDesc == 2
\* poll cap used by Spec in place of TIMEOUT
PollBound == 2

\* --------------------------------------------------------- program constants
\* int timeout = 10000
TIMEOUT == 10000
\* enum dma_slave_buswidth: the only accepted endpoint width
DMA_SLAVE_BUSWIDTH_4_BYTES == 4
\* sizeof(struct bcm2708_dma_cb)
CbSize == 32

DMA_COMPLETE == "DMA_COMPLETE"
DMA_IN_PROGRESS == "DMA_IN_PROGRESS"
NotFound == "NotFound"

DMA_MEM_TO_MEM == "DMA_MEM_TO_MEM"
DMA_MEM_TO_DEV == "DMA_MEM_TO_DEV"
DMA_DEV_TO_MEM == "DMA_DEV_TO_MEM"

DescIds == 1..MaxDesc
NULL == 0

VARIABLES
    descs,           \* DescIds -> struct bcm2708_desc (NoDesc: never allocated)
    nfree,           \* DescIds -> number of bcm2708_dma_desc_free calls on it
    desc_submitted,  \* c->vc.desc_submitted: sequence of descriptor ids
    desc_issued,     \* c->vc.desc_issued: sequence of descriptor ids
    c_desc,          \* c->desc: the active slot (NULL or a descriptor id)
    cfg,             \* c->cfg
    cfg_copy,        \* the struct copy of line 371 in progress: the caller's
                     \* config and the members not yet stored into c->cfg
    cyclic,          \* c->cyclic
    chan_cookie,     \* c->vc.chan.cookie: last cookie assigned
    completed_cookie,\* c->vc.chan.completed_cookie
    allocated,       \* the channel is held by a client (alloc_chan_resources)
    irq_registered,  \* request_irq done and not yet free_irq
    lock,            \* c->vc.lock: "free" or its holder
    t_pc,            \* position of the thread inside terminate_all
    timeout,         \* terminate_all's local timeout
    head,            \* terminate_all's local list head
    hw_active,       \* BCM2708_DMA_ACTIVE bit of the CS register
    hw_int,          \* BCM2708_DMA_INT bit of the CS register
    hw_conblk,       \* CONBLK_AD: bus address the channel was started on
    hw_abort,        \* an abort was issued and the channel has not yet stopped
    started,         \* sequence of addresses passed to bcm_dma_start
    aborted,         \* descriptors that were active when bcm_dma_abort was called
    t_atcall,        \* descriptors active or queued when terminate_all was called
    t_polls,         \* run-bit reads of the terminate_all in progress
    t_sawclear,      \* a poll of the terminate_all in progress read the bit clear
    err_logged,      \* the terminate_all in progress printed its dev_err
    t_run,           \* terminate_all calls begun since any other entry point
                     \* last ran (capped at 2)
    last             \* the step just taken: [op, arg, ret, val]; for the
                     \* callback, arg is the descriptor notified and val the
                     \* number of vchan_cyclic_callback calls it made

vars == <<descs, nfree, desc_submitted, desc_issued, c_desc, cfg, cfg_copy, cyclic,
          chan_cookie, completed_cookie, allocated, irq_registered, lock,
          t_pc, timeout, head, hw_active, hw_int, hw_conblk, hw_abort,
          started, aborted, t_atcall, t_polls, t_sawclear,
          err_logged, t_run, last>>

\* the channel's software state (struct bcm2708_chan and its descriptors)
chanvars == <<descs, nfree, desc_submitted, desc_issued, c_desc, cfg, cfg_copy, cyclic,
              chan_cookie, completed_cookie, allocated, irq_registered, lock>>
\* the hardware channel
hwvars == <<hw_active, hw_int, hw_conblk, hw_abort>>
\* terminate_all's frame
tvars == <<t_pc, timeout, head, t_atcall, t_polls, t_sawclear, err_logged>>
\* observation records
obsvars == <<started, aborted>>

\* ------------------------------------------------------------------ inputs
BufAddr == 8 * 8
FifoAddr == 2 * 8
\* (buf_len, period_len) pairs handed to prepare by Spec
PrepLens == { <<4, 2>> }
Directions == { DMA_MEM_TO_MEM, DMA_MEM_TO_DEV, DMA_DEV_TO_MEM }
Config(direction, src_addr_width, dst_addr_width) ==
    [ direction |-> direction, src_addr_width |-> src_addr_width,
      dst_addr_width |-> dst_addr_width, src_addr |-> FifoAddr,
      dst_addr |-> FifoAddr, slave_id |-> 2 ]
\* configurations handed to slave_config by Spec
CfgInputs == { Config(DMA_DEV_TO_MEM, DMA_SLAVE_BUSWIDTH_4_BYTES, 2),
              Config(DMA_DEV_TO_MEM, 2, DMA_SLAVE_BUSWIDTH_4_BYTES),
              Config(DMA_MEM_TO_MEM, DMA_SLAVE_BUSWIDTH_4_BYTES,
                     DMA_SLAVE_BUSWIDTH_4_BYTES) }
\* positions the hardware address register may show when read
Positions == { BufAddr + 1, BufAddr + 3, BufAddr + 4 }
Cookies == 1..(MaxDesc + 2)

\* inputs of SpecBuild: (buf_len, period_len) pairs that divide exactly into
\* 1, 2, 3 and 4 frames, one that leaves a remainder, one with
\* period_len > buf_len
BuildLens == { <<4, 4>>, <<4, 2>>, <<6, 2>>, <<4, 1>>, <<5, 2>>, <<1, 2>> }
Widths == { 2, DMA_SLAVE_BUSWIDTH_4_BYTES }
\* configurations of SpecBuild: the endpoint's two addresses differ
BuildConfig(direction, src_addr_width, dst_addr_width, slave_id) ==
    [ direction |-> direction, src_addr_width |-> src_addr_width,
      dst_addr_width |-> dst_addr_width, src_addr |-> FifoAddr,
      dst_addr |-> FifoAddr + 4, slave_id |-> slave_id ]
BuildCfgs == { BuildConfig(direction, sw, dw, id) :
                 direction \in Directions, sw \in Widths, dw \in Widths,
                 id \in {0, 2} }
\* configurations of SpecRace: two valid DEV_TO_MEM configurations for two
\* endpoints, and one slave_config rejects
RaceCfgs == { [ BuildConfig(DMA_DEV_TO_MEM, DMA_SLAVE_BUSWIDTH_4_BYTES, 2, 2)
                  EXCEPT !.src_addr = FifoAddr ],
              [ BuildConfig(DMA_DEV_TO_MEM, DMA_SLAVE_BUSWIDTH_4_BYTES, 2, 3)
                  EXCEPT !.src_addr = FifoAddr + 8 ] }
RaceBadCfg == BuildConfig(DMA_MEM_TO_MEM, DMA_SLAVE_BUSWIDTH_4_BYTES,
                          DMA_SLAVE_BUSWIDTH_4_BYTES, 2)
\* register values of SpecBuild: just below the buffer, its first byte,
\* bytes inside and at the start of later periods, and its end
BuildPositions == { BufAddr - 1, BufAddr, BufAddr + 1, BufAddr + 3,
                    BufAddr + 4, BufAddr + 6 }

\* ------------------------------------------------------------------ helpers
NoDesc == [ dir |-> "none", frames |-> 0, size |-> 0,
            control_block_size |-> 0, control_block_base |-> << >>,
            control_block_base_phys |-> 0, cookie |-> 0 ]

ZeroCfg == [ direction |-> DMA_MEM_TO_MEM, src_addr_width |-> 0,
             dst_addr_width |-> 0, src_addr |-> 0, dst_addr |-> 0,
             slave_id |-> 0 ]

\* the members of struct dma_slave_config the driver reads
CfgFields == { "direction", "src_addr", "dst_addr", "src_addr_width",
               "dst_addr_width", "slave_id" }
\* no slave_config is between its first and its last store into c->cfg
NoCopy == [ config |-> ZeroCfg, left |-> {} ]

Step(op, arg, ret, val) ==
    [ op |-> op, arg |-> arg, ret |-> ret, val |-> val ]

SeqToSet(s) == { s[i] : i \in 1..Len(s) }

Min(a, b) == IF a < b THEN a ELSE b

\* the descriptors whose memory is allocated and not yet freed
Live == { d \in DescIds : descs[d] # NoDesc /\ nfree[d] = 0 }
\* prepared and not yet submitted
Prepared == { d \in Live : descs[d].cookie = 0 }

is_slave_direction(direction) ==
    direction \in { DMA_MEM_TO_DEV, DMA_DEV_TO_MEM }

\* dma_zalloc_coherent: the bus address of descriptor d's control blocks
dma_zalloc_coherent(d) == d * 8 * CbSize

Init ==
    /\ descs = [ d \in DescIds |-> NoDesc ]
    /\ nfree = [ d \in DescIds |-> 0 ]
    /\ desc_submitted = << >>
    /\ desc_issued = << >>
    /\ c_desc = NULL
    /\ cfg = ZeroCfg
    /\ cfg_copy = NoCopy
    /\ cyclic = FALSE
    /\ chan_cookie = 1
    /\ completed_cookie = 1
    /\ allocated = FALSE
    /\ irq_registered = FALSE
    /\ lock = "free"
    /\ t_pc = "idle"
    /\ timeout = 0
    /\ head = << >>
    /\ hw_active = FALSE
    /\ hw_int = FALSE
    /\ hw_conblk = NULL
    /\ hw_abort = FALSE
    /\ started = << >>
    /\ aborted = {}
    /\ t_atcall = {}
    /\ t_polls = 0
    /\ t_sawclear = FALSE
    /\ err_logged = FALSE
    /\ t_run = 0
    /\ last = Step("init", 0, "0", 0)

\* ------------------------------------------------- framework and platform
\* dma_cookie_status: the framework's answer for a cookie
dma_cookie_status(cookie) ==
    IF cookie <= 1 \/ cookie > chan_cookie THEN NotFound
    ELSE IF cookie <= completed_cookie THEN DMA_COMPLETE
    ELSE DMA_IN_PROGRESS

\* vchan_find_desc: the still-queued descriptor carrying the cookie, or NULL
vchan_find_desc(cookie) ==
    LET queued == desc_issued \o desc_submitted
        hits == { i \in 1..Len(queued) : descs[queued[i]].cookie = cookie }
    IN  IF hits = {} THEN NULL
        ELSE queued[CHOOSE i \in hits : \A j \in hits : i <= j]

\* vchan_issue_pending: the issued list after splicing the submitted list
vchan_issue_pending == desc_issued \o desc_submitted

\* vchan_next_desc: the first entry of the issued list
vchan_next_desc(issued) == IF issued = << >> THEN NULL ELSE Head(issued)

\* vchan_get_all_descriptors: everything on the channel's lists
vchan_get_all_descriptors == desc_submitted \o desc_issued

\* bcm2708_dma_desc_free on every entry of a list
vchan_dma_desc_free_list(list) ==
    nfree' = [ d \in DescIds |->
                 nfree[d] + Cardinality({ i \in 1..Len(list) : list[i] = d }) ]

\* bcm_dma_start: load the chain head address and set the run bit
bcm_dma_start(addr) ==
    /\ hw_conblk' = addr
    /\ hw_active' = TRUE
    /\ hw_abort' = FALSE
    /\ started' = Append(started, addr)

\* bcm_dma_abort: issue the stop command
bcm_dma_abort == hw_abort' = TRUE

\* ------------------------------------------------------------ entry points
\* start_desc that leaves the started descriptor on the issued list
bcm2708_dma_start_desc_nodel(issued) ==
    LET vd == vchan_next_desc(issued) IN
    IF vd = NULL
    THEN /\ c_desc' = NULL
         /\ desc_issued' = issued
         /\ UNCHANGED <<hw_conblk, hw_active, hw_abort, started>>
    ELSE /\ desc_issued' = issued
         /\ c_desc' = vd
         /\ bcm_dma_start(descs[vd].control_block_base_phys)

\* bcm2708_dma_start_desc, on the issued list `issued`
bcm2708_dma_start_desc(issued) ==
    LET vd == vchan_next_desc(issued) IN
    IF vd = NULL
    THEN /\ c_desc' = NULL
         /\ desc_issued' = issued
         /\ UNCHANGED <<hw_conblk, hw_active, hw_abort, started>>
    ELSE /\ desc_issued' = Tail(issued)
         /\ c_desc' = vd
         /\ bcm_dma_start(descs[vd].control_block_base_phys)

\* callback that treats the period interrupt as the descriptor's completion
bcm2708_dma_callback_complete ==
    /\ irq_registered
    /\ hw_int
    /\ lock = "free"
    /\ hw_int' = FALSE
    /\ hw_active' = TRUE
    /\ c_desc' = NULL
    /\ last' = Step("callback", c_desc, "IRQ_HANDLED",
                    IF c_desc # NULL THEN 1 ELSE 0)
    /\ t_run' = 0
    /\ UNCHANGED <<descs, nfree, desc_submitted, desc_issued, cfg, cfg_copy, cyclic,
                   chan_cookie, completed_cookie, allocated, irq_registered,
                   lock, tvars, hw_conblk, hw_abort, started, aborted>>

bcm2708_dma_callback ==
    /\ irq_registered
    /\ hw_int
    /\ lock = "free"
    /\ hw_int' = FALSE
    /\ hw_active' = TRUE
    /\ last' = Step("callback", c_desc, "IRQ_HANDLED",
                    IF c_desc # NULL THEN 1 ELSE 0)
    /\ t_run' = 0
    /\ UNCHANGED <<chanvars, tvars, hw_conblk, hw_abort, started, aborted>>

bcm2708_dma_alloc_chan_resources(ok) ==
    /\ ~allocated
    /\ t_pc = "idle"
    /\ IF ok
       THEN /\ irq_registered' = TRUE
            /\ allocated' = TRUE
            /\ last' = Step("alloc_chan_resources", 0, "0", 0)
       ELSE /\ UNCHANGED <<irq_registered, allocated>>
            /\ last' = Step("alloc_chan_resources", 0, "-EBUSY", 0)
    /\ t_run' = 0
    /\ UNCHANGED <<descs, nfree, desc_submitted, desc_issued, c_desc, cfg, cfg_copy,
                   cyclic, chan_cookie, completed_cookie, lock, tvars, hwvars,
                   obsvars>>

bcm2708_dma_free_chan_resources ==
    /\ allocated
    /\ t_pc = "idle"
    /\ lock = "free"
    /\ vchan_dma_desc_free_list(vchan_get_all_descriptors)
    /\ desc_submitted' = << >>
    /\ desc_issued' = << >>
    /\ irq_registered' = FALSE
    /\ allocated' = FALSE
    /\ last' = Step("free_chan_resources", 0, "0", 0)
    /\ t_run' = 0
    /\ UNCHANGED <<descs, c_desc, cfg, cfg_copy, cyclic, chan_cookie, completed_cookie,
                   lock, tvars, hwvars, obsvars>>

\* desc_size that returns the size of the control block array
bcm2708_dma_desc_size_cb(d) == descs[d].control_block_size

bcm2708_dma_desc_size(d) == descs[d].size

RECURSIVE size_pos_loop(_, _, _, _)
size_pos_loop(d, addr, i, size) ==
    IF i > descs[d].frames THEN size
    ELSE LET control_block == descs[d].control_block_base[i]
             this_size == control_block.length
             dma == IF descs[d].dir = DMA_DEV_TO_MEM
                    THEN control_block.dst ELSE control_block.src
         IN  size_pos_loop(d, addr, i + 1,
                 IF size # 0 THEN size + this_size
                 ELSE IF addr >= dma /\ addr < dma + this_size
                      THEN size + dma + this_size - addr
                      ELSE size)

\* desc_size_pos whose walk starts at the second control block
bcm2708_dma_desc_size_pos_skipfirst(d, addr) == size_pos_loop(d, addr, 2, 0)

bcm2708_dma_desc_size_pos(d, addr) == size_pos_loop(d, addr, 1, 0)

\* status that reports a cookie it finds neither queued nor active as complete
bcm2708_dma_tx_status_complete(cookie, has_txstate, source_ad, dest_ad) ==
    LET ret == dma_cookie_status(cookie) IN
    /\ allocated
    /\ IF ret = DMA_COMPLETE \/ ~has_txstate
       THEN last' = Step("tx_status", cookie, ret, IF has_txstate THEN 0 ELSE -1)
       ELSE /\ lock = "free"
            /\ LET vd == vchan_find_desc(cookie) IN
               last' = IF vd # NULL
                       THEN Step("tx_status", cookie, ret, descs[vd].size)
                       ELSE IF c_desc # NULL /\ descs[c_desc].cookie = cookie
                       THEN Step("tx_status", cookie, ret,
                                bcm2708_dma_desc_size_pos(c_desc,
                                    IF descs[c_desc].dir = DMA_MEM_TO_DEV
                                    THEN source_ad
                                    ELSE IF descs[c_desc].dir = DMA_DEV_TO_MEM
                                         THEN dest_ad ELSE 0))
                       ELSE Step("tx_status", cookie, DMA_COMPLETE, 0)
    /\ t_run' = 0
    /\ UNCHANGED <<chanvars, tvars, hwvars, obsvars>>

\* status(cookie); has_txstate: the caller passed a txstate; source_ad and
\* dest_ad: what the hardware address registers show if they are read
bcm2708_dma_tx_status(cookie, has_txstate, source_ad, dest_ad) ==
    LET ret == dma_cookie_status(cookie) IN
    /\ allocated
    /\ IF ret = DMA_COMPLETE \/ ~has_txstate
       THEN last' = Step("tx_status", cookie, ret, IF has_txstate THEN 0 ELSE -1)
       ELSE /\ lock = "free"
            /\ LET vd == vchan_find_desc(cookie) IN
               last' = Step("tx_status", cookie, ret,
                   IF vd # NULL THEN bcm2708_dma_desc_size(vd)
                   ELSE IF c_desc # NULL /\ descs[c_desc].cookie = cookie
                        THEN bcm2708_dma_desc_size_pos(c_desc,
                                 IF descs[c_desc].dir = DMA_MEM_TO_DEV
                                 THEN source_ad
                                 ELSE IF descs[c_desc].dir = DMA_DEV_TO_MEM
                                      THEN dest_ad ELSE 0)
                        ELSE 0)
    /\ t_run' = 0
    /\ UNCHANGED <<chanvars, tvars, hwvars, obsvars>>

\* tx_submit of a prepared descriptor (vchan_submit)
vchan_submit(d) ==
    /\ allocated
    /\ lock = "free"
    /\ d \in Prepared
    /\ chan_cookie' = chan_cookie + 1
    /\ descs' = [ descs EXCEPT ![d].cookie = chan_cookie + 1 ]
    /\ desc_submitted' = Append(desc_submitted, d)
    /\ last' = Step("tx_submit", d, "cookie", chan_cookie + 1)
    /\ t_run' = 0
    /\ UNCHANGED <<nfree, desc_issued, c_desc, cfg, cfg_copy, cyclic, completed_cookie,
                   allocated, irq_registered, lock, tvars, hwvars, obsvars>>

\* issue_pending that starts the next descriptor without testing c->desc
bcm2708_dma_issue_pending_nocheck ==
    /\ allocated
    /\ lock = "free"
    /\ cyclic' = TRUE
    /\ LET issued == vchan_issue_pending IN
       /\ desc_submitted' = << >>
       /\ IF issued # << >>
          THEN bcm2708_dma_start_desc(issued)
          ELSE /\ desc_issued' = issued
               /\ UNCHANGED <<c_desc, hw_conblk, hw_active, hw_abort, started>>
    /\ last' = Step("issue_pending", 0, "void", 0)
    /\ t_run' = 0
    /\ UNCHANGED <<descs, nfree, cfg, cfg_copy, chan_cookie, completed_cookie, allocated,
                   irq_registered, lock, tvars, hw_int, aborted>>

bcm2708_dma_issue_pending ==
    /\ allocated
    /\ lock = "free"
    /\ cyclic' = TRUE
    /\ LET issued == vchan_issue_pending IN
       /\ desc_submitted' = << >>
       /\ IF issued # << >> /\ c_desc = NULL
          THEN bcm2708_dma_start_desc(issued)
          ELSE /\ desc_issued' = issued
               /\ UNCHANGED <<c_desc, hw_conblk, hw_active, hw_abort, started>>
    /\ last' = Step("issue_pending", 0, "void", 0)
    /\ t_run' = 0
    /\ UNCHANGED <<descs, nfree, cfg, cfg_copy, chan_cookie, completed_cookie, allocated,
                   irq_registered, lock, tvars, hw_int, aborted>>

\* control block whose next pointer does not wrap at the last frame
control_block_of_nowrap(d, dir, frames, dev_addr, sync_type, buf_addr, period_len, frame) ==
    [ info   |-> (IF dir = DMA_DEV_TO_MEM THEN {"D_INC"} ELSE {"S_INC"})
                 \cup {"INT_EN"} \cup {sync_type}
                 \cup (IF cfg.slave_id # 0 THEN {"PER_MAP"} ELSE {}),
      per_map |-> cfg.slave_id,
      src    |-> IF dir = DMA_DEV_TO_MEM THEN dev_addr
                 ELSE buf_addr + frame * period_len,
      dst    |-> IF dir = DMA_DEV_TO_MEM THEN buf_addr + frame * period_len
                 ELSE dev_addr,
      length |-> period_len,
      next   |-> dma_zalloc_coherent(d) + CbSize * (frame + 1) ]

\* control block whose memory side does not advance with the frame
control_block_of_fixedbuf(d, dir, frames, dev_addr, sync_type, buf_addr, period_len, frame) ==
    [ info   |-> (IF dir = DMA_DEV_TO_MEM THEN {"D_INC"} ELSE {"S_INC"})
                 \cup {"INT_EN"} \cup {sync_type}
                 \cup (IF cfg.slave_id # 0 THEN {"PER_MAP"} ELSE {}),
      per_map |-> cfg.slave_id,
      src    |-> IF dir = DMA_DEV_TO_MEM THEN dev_addr
                 ELSE buf_addr,
      dst    |-> IF dir = DMA_DEV_TO_MEM THEN buf_addr
                 ELSE dev_addr,
      length |-> period_len,
      next   |-> dma_zalloc_coherent(d) + CbSize * ((frame + 1) % frames) ]

\* one control block of a descriptor being built (frame counted from 0)
control_block_of(d, dir, frames, dev_addr, sync_type, buf_addr, period_len, frame) ==
    [ info   |-> (IF dir = DMA_DEV_TO_MEM THEN {"D_INC"} ELSE {"S_INC"})
                 \cup {"INT_EN"} \cup {sync_type}
                 \cup (IF cfg.slave_id # 0 THEN {"PER_MAP"} ELSE {}),
      per_map |-> cfg.slave_id,
      src    |-> IF dir = DMA_DEV_TO_MEM THEN dev_addr
                 ELSE buf_addr + frame * period_len,
      dst    |-> IF dir = DMA_DEV_TO_MEM THEN buf_addr + frame * period_len
                 ELSE dev_addr,
      length |-> period_len,
      next   |-> dma_zalloc_coherent(d) + CbSize * ((frame + 1) % frames) ]

\* prepare_cyclic; mem: "ok", or which allocation fails
bcm2708_dma_prep_dma_cyclic(buf_addr, buf_len, period_len, direction, mem) ==
    LET dev_addr == IF direction = DMA_DEV_TO_MEM THEN cfg.src_addr
                    ELSE cfg.dst_addr
        dev_width == IF direction = DMA_DEV_TO_MEM THEN cfg.src_addr_width
                     ELSE cfg.dst_addr_width
        sync_type == IF direction = DMA_DEV_TO_MEM THEN "S_DREQ" ELSE "D_DREQ"
        frames == buf_len \div period_len
        d == CHOOSE x \in DescIds :
                 descs[x] = NoDesc /\ \A y \in DescIds : descs[y] = NoDesc => x <= y
    IN
    /\ allocated
    /\ \E x \in DescIds : descs[x] = NoDesc
    /\ IF \/ ~is_slave_direction(direction)
          \/ dev_width # DMA_SLAVE_BUSWIDTH_4_BYTES
          \/ mem # "ok"
       THEN /\ UNCHANGED descs
            /\ last' = Step("prep_dma_cyclic", 0, "NULL", 0)
       ELSE /\ descs' = [ descs EXCEPT ![d] =
                  [ dir |-> direction,
                    frames |-> frames,
                    size |-> frames * period_len,
                    control_block_size |-> frames * CbSize,
                    control_block_base |->
                        [ i \in 1..frames |->
                            control_block_of(d, direction, frames, dev_addr,
                                sync_type, buf_addr, period_len, i - 1) ],
                    control_block_base_phys |-> dma_zalloc_coherent(d),
                    cookie |-> 0 ] ]
            /\ last' = Step("prep_dma_cyclic", d, "desc", 0)
    /\ t_run' = 0
    /\ UNCHANGED <<nfree, desc_submitted, desc_issued, c_desc, cfg, cfg_copy, cyclic,
                   chan_cookie, completed_cookie, allocated, irq_registered,
                   lock, tvars, hwvars, obsvars>>

\* slave_config that does not test the width of a MEM_TO_DEV endpoint
bcm2708_dma_slave_config_nowidth(config) ==
    /\ allocated
    /\ IF \/ (config.direction = DMA_DEV_TO_MEM /\
              config.src_addr_width # DMA_SLAVE_BUSWIDTH_4_BYTES)
          \/ ~is_slave_direction(config.direction)
       THEN /\ UNCHANGED cfg
            /\ last' = Step("slave_config", 0, "-EINVAL", 0)
       ELSE /\ cfg' = config
            /\ last' = Step("slave_config", 0, "0", 0)
    /\ t_run' = 0
    /\ UNCHANGED <<descs, nfree, desc_submitted, desc_issued, c_desc, cfg_copy,
                   cyclic, chan_cookie, completed_cookie, allocated,
                   irq_registered, lock, tvars, hwvars, obsvars>>

\* slave_config, with the struct copy of line 371 as one step
bcm2708_dma_slave_config(config) ==
    /\ allocated
    /\ IF \/ (config.direction = DMA_DEV_TO_MEM /\
              config.src_addr_width # DMA_SLAVE_BUSWIDTH_4_BYTES)
          \/ (config.direction = DMA_MEM_TO_DEV /\
              config.dst_addr_width # DMA_SLAVE_BUSWIDTH_4_BYTES)
          \/ ~is_slave_direction(config.direction)
       THEN /\ UNCHANGED cfg
            /\ last' = Step("slave_config", 0, "-EINVAL", 0)
       ELSE /\ cfg' = config
            /\ last' = Step("slave_config", 0, "0", 0)
    /\ t_run' = 0
    /\ UNCHANGED <<descs, nfree, desc_submitted, desc_issued, c_desc, cfg_copy,
                   cyclic, chan_cookie, completed_cookie, allocated,
                   irq_registered, lock, tvars, hwvars, obsvars>>

\* slave_config as the threads of SpecRace run it, lines 363-371: the
\* validation, after which the struct copy of line 371 starts. No lock is
\* taken, so the copy's stores are separate steps.
bcm2708_dma_slave_config_begin(config) ==
    /\ allocated
    /\ cfg_copy = NoCopy
    /\ IF \/ (config.direction = DMA_DEV_TO_MEM /\
              config.src_addr_width # DMA_SLAVE_BUSWIDTH_4_BYTES)
          \/ (config.direction = DMA_MEM_TO_DEV /\
              config.dst_addr_width # DMA_SLAVE_BUSWIDTH_4_BYTES)
          \/ ~is_slave_direction(config.direction)
       THEN /\ UNCHANGED cfg_copy
            /\ last' = Step("slave_config", 0, "-EINVAL", 0)
       ELSE /\ cfg_copy' = [ config |-> config, left |-> CfgFields ]
            /\ last' = Step("slave_config", 0, "begin", 0)
    /\ t_run' = 0
    /\ UNCHANGED <<descs, nfree, desc_submitted, desc_issued, c_desc, cfg,
                   cyclic, chan_cookie, completed_cookie, allocated,
                   irq_registered, lock, tvars, hwvars, obsvars>>

\* line 371, one member of c->cfg stored; the language fixes no order for
\* the members of a struct assignment. After the last store, return 0.
bcm2708_dma_slave_config_store(f) ==
    /\ f \in cfg_copy.left
    /\ cfg' = [ cfg EXCEPT ![f] = cfg_copy.config[f] ]
    /\ IF cfg_copy.left = {f}
       THEN /\ cfg_copy' = NoCopy
            /\ last' = Step("slave_config", 0, "0", 0)
       ELSE /\ cfg_copy' = [ cfg_copy EXCEPT !.left = @ \ {f} ]
            /\ last' = Step("slave_config", 0, "store", 0)
    /\ t_run' = 0
    /\ UNCHANGED <<descs, nfree, desc_submitted, desc_issued, c_desc, cyclic,
                   chan_cookie, completed_cookie, allocated, irq_registered,
                   lock, tvars, hwvars, obsvars>>

\* terminate_all that aborts and polls without testing c->desc
bcm2708_dma_terminate_all_begin_noguard(cap) ==
    /\ allocated
    /\ t_pc = "idle"
    /\ lock = "free"
    /\ lock' = "terminate_all"
    /\ timeout' = cap
    /\ head' = << >>
    /\ t_atcall' = SeqToSet(desc_submitted) \cup SeqToSet(desc_issued)
                   \cup (IF c_desc # NULL THEN {c_desc} ELSE {})
    /\ t_polls' = 0
    /\ t_sawclear' = FALSE
    /\ err_logged' = FALSE
    /\ t_run' = Min(t_run + 1, 2)
    /\ c_desc' = NULL
    /\ bcm_dma_abort
    /\ aborted' = aborted \cup (IF c_desc # NULL THEN {c_desc} ELSE {})
    /\ t_pc' = "poll"
    /\ last' = Step("terminate_all", 0, "begin", 0)
    /\ UNCHANGED <<descs, nfree, desc_submitted, desc_issued, cfg, cfg_copy, cyclic,
                   chan_cookie, completed_cookie, allocated, irq_registered,
                   hw_active, hw_int, hw_conblk, started>>

\* terminate_all that aborts and leaves the descriptor in the active slot
bcm2708_dma_terminate_all_begin_keepslot(cap) ==
    /\ allocated
    /\ t_pc = "idle"
    /\ lock = "free"
    /\ lock' = "terminate_all"
    /\ timeout' = cap
    /\ head' = << >>
    /\ t_atcall' = SeqToSet(desc_submitted) \cup SeqToSet(desc_issued)
                   \cup (IF c_desc # NULL THEN {c_desc} ELSE {})
    /\ t_polls' = 0
    /\ t_sawclear' = FALSE
    /\ err_logged' = FALSE
    /\ t_run' = Min(t_run + 1, 2)
    /\ IF c_desc # NULL
       THEN /\ c_desc' = c_desc
            /\ bcm_dma_abort
            /\ aborted' = aborted \cup {c_desc}
            /\ t_pc' = "poll"
       ELSE /\ UNCHANGED <<c_desc, hw_abort, aborted>>
            /\ t_pc' = "collect"
    /\ last' = Step("terminate_all", 0, "begin", 0)
    /\ UNCHANGED <<descs, nfree, desc_submitted, desc_issued, cfg, cfg_copy, cyclic,
                   chan_cookie, completed_cookie, allocated, irq_registered,
                   hw_active, hw_int, hw_conblk, started>>

\* terminate_all, lines 383-397: take the lock, clear the slot, abort.
\* list_del_init(&c->node) under d->lock changes nothing: the driver never
\* links c->node into a list after INIT_LIST_HEAD.
bcm2708_dma_terminate_all_begin(cap) ==
    /\ allocated
    /\ t_pc = "idle"
    /\ lock = "free"
    /\ lock' = "terminate_all"
    /\ timeout' = cap
    /\ head' = << >>
    /\ t_atcall' = SeqToSet(desc_submitted) \cup SeqToSet(desc_issued)
                   \cup (IF c_desc # NULL THEN {c_desc} ELSE {})
    /\ t_polls' = 0
    /\ t_sawclear' = FALSE
    /\ err_logged' = FALSE
    /\ t_run' = Min(t_run + 1, 2)
    /\ IF c_desc # NULL
       THEN /\ c_desc' = NULL
            /\ bcm_dma_abort
            /\ aborted' = aborted \cup {c_desc}
            /\ t_pc' = "poll"
       ELSE /\ UNCHANGED <<c_desc, hw_abort, aborted>>
            /\ t_pc' = "collect"
    /\ last' = Step("terminate_all", 0, "begin", 0)
    /\ UNCHANGED <<descs, nfree, desc_submitted, desc_issued, cfg, cfg_copy, cyclic,
                   chan_cookie, completed_cookie, allocated, irq_registered,
                   hw_active, hw_int, hw_conblk, started>>

\* poll loop whose iteration does not count down
bcm2708_dma_terminate_all_poll_nodec ==
    /\ t_pc = "poll"
    /\ IF timeout > 0
       THEN /\ UNCHANGED timeout
            /\ t_polls' = Min(t_polls + 1, TIMEOUT + 1)
            /\ IF ~hw_active
               THEN /\ t_sawclear' = TRUE
                    /\ t_pc' = "check"
               ELSE UNCHANGED <<t_sawclear, t_pc>>
       ELSE /\ t_pc' = "check"
            /\ UNCHANGED <<timeout, t_polls, t_sawclear>>
    /\ last' = Step("terminate_all", 0, "poll", 0)
    /\ UNCHANGED <<chanvars, hwvars, obsvars, head, t_atcall, err_logged,
                   t_run>>

\* terminate_all, lines 400-407: the loop test and one iteration
bcm2708_dma_terminate_all_poll ==
    /\ t_pc = "poll"
    /\ IF timeout > 0
       THEN /\ timeout' = timeout - 1
            /\ t_polls' = t_polls + 1
            /\ IF ~hw_active
               THEN /\ t_sawclear' = TRUE
                    /\ t_pc' = "check"
               ELSE UNCHANGED <<t_sawclear, t_pc>>
       ELSE /\ t_pc' = "check"
            /\ UNCHANGED <<timeout, t_polls, t_sawclear>>
    /\ last' = Step("terminate_all", 0, "poll", 0)
    /\ UNCHANGED <<chanvars, hwvars, obsvars, head, t_atcall, err_logged,
                   t_run>>

\* terminate_all, lines 409-410
bcm2708_dma_terminate_all_check ==
    /\ t_pc = "check"
    /\ err_logged' = (timeout <= 0)
    /\ t_pc' = "collect"
    /\ last' = Step("terminate_all", 0, "check", 0)
    /\ UNCHANGED <<chanvars, hwvars, obsvars, timeout, head, t_atcall,
                   t_polls, t_sawclear, t_run>>

\* terminate_all, lines 413-414: collect the lists, drop the lock
bcm2708_dma_terminate_all_collect ==
    /\ t_pc = "collect"
    /\ head' = vchan_get_all_descriptors
    /\ desc_submitted' = << >>
    /\ desc_issued' = << >>
    /\ lock' = "free"
    /\ t_pc' = "free"
    /\ last' = Step("terminate_all", 0, "collect", 0)
    /\ UNCHANGED <<descs, nfree, c_desc, cfg, cfg_copy, cyclic, chan_cookie,
                   completed_cookie, allocated, irq_registered, hwvars,
                   obsvars, timeout, t_atcall, t_polls, t_sawclear,
                   err_logged, t_run>>

\* terminate_all, lines 415-417: free the collected descriptors, return 0
bcm2708_dma_terminate_all_free ==
    /\ t_pc = "free"
    /\ vchan_dma_desc_free_list(head)
    /\ head' = << >>
    /\ t_pc' = "idle"
    /\ timeout' = 0
    /\ t_atcall' = {}
    /\ t_polls' = 0
    /\ t_sawclear' = FALSE
    /\ err_logged' = FALSE
    /\ last' = Step("terminate_all", 0, "0", IF err_logged THEN 1 ELSE 0)
    /\ UNCHANGED <<descs, desc_submitted, desc_issued, c_desc, cfg, cfg_copy, cyclic,
                   chan_cookie, completed_cookie, allocated, irq_registered,
                   lock, hwvars, obsvars, t_run>>

\* ---------------------------------------------------------------- hardware
\* the running channel reaches a period boundary and raises its interrupt
HwIrq ==
    /\ hw_active
    /\ hw_conblk # NULL
    /\ ~hw_int
    /\ hw_int' = TRUE
    /\ last' = Step("hw", 0, "irq", 0)
    /\ UNCHANGED <<chanvars, tvars, obsvars, hw_active, hw_conblk, hw_abort,
                   t_run>>

\* the channel completes a pending abort: the run bit clears
HwStop ==
    /\ hw_abort
    /\ hw_active' = FALSE
    /\ hw_abort' = FALSE
    /\ last' = Step("hw", 0, "stop", 0)
    /\ UNCHANGED <<chanvars, tvars, obsvars, hw_int, hw_conblk, t_run>>

\* --------------------------------------------------------- specifications
\* the values an address register may show to status(cookie); the registers
\* are read only for the active descriptor's cookie
RegisterValues(cookie) ==
    IF c_desc # NULL /\ descs[c_desc].cookie = cookie THEN Positions ELSE {0}

Next ==
    \/ \E ok \in BOOLEAN : bcm2708_dma_alloc_chan_resources(ok)
    \/ bcm2708_dma_free_chan_resources
    \/ \E config \in CfgInputs : bcm2708_dma_slave_config(config)
    \/ \E lens \in PrepLens, direction \in Directions, mem \in {"ok", "nomem"} :
           bcm2708_dma_prep_dma_cyclic(BufAddr, lens[1], lens[2], direction, mem)
    \/ \E d \in DescIds : vchan_submit(d)
    \/ bcm2708_dma_issue_pending
    \/ \E cookie \in Cookies, has_txstate \in BOOLEAN :
           \E source_ad \in RegisterValues(cookie),
              dest_ad \in RegisterValues(cookie) :
               bcm2708_dma_tx_status(cookie, has_txstate, source_ad, dest_ad)
    \/ bcm2708_dma_callback
    \/ bcm2708_dma_terminate_all_begin(PollBound)
    \/ bcm2708_dma_terminate_all_poll
    \/ bcm2708_dma_terminate_all_check
    \/ bcm2708_dma_terminate_all_collect
    \/ bcm2708_dma_terminate_all_free
    \/ HwIrq
    \/ HwStop

Spec == Init /\ [][Next]_vars

\* the reduced environment of SpecTimeout: one client thread, which prepares
\* at most two descriptors and calls terminate_all with the source's poll
\* cap, and the hardware
NextTimeout ==
    \/ t_pc = "idle" /\ bcm2708_dma_alloc_chan_resources(TRUE)
    \/ t_pc = "idle" /\ bcm2708_dma_slave_config(
           Config(DMA_DEV_TO_MEM, DMA_SLAVE_BUSWIDTH_4_BYTES, 2))
    \/ t_pc = "idle" /\ descs[2] = NoDesc /\ \E lens \in PrepLens :
           bcm2708_dma_prep_dma_cyclic(BufAddr, lens[1], lens[2],
                                       DMA_DEV_TO_MEM, "ok")
    \/ t_pc = "idle" /\ \E d \in DescIds : vchan_submit(d)
    \/ t_pc = "idle" /\ bcm2708_dma_issue_pending
    \/ bcm2708_dma_terminate_all_begin(TIMEOUT)
    \/ bcm2708_dma_terminate_all_poll
    \/ bcm2708_dma_terminate_all_check
    \/ bcm2708_dma_terminate_all_collect
    \/ bcm2708_dma_terminate_all_free
    \/ HwStop

\* a thread inside terminate_all keeps running: it spins with the lock held
\* and interrupts off, and is never blocked on anything but the hardware read
TerminateStep ==
    \/ bcm2708_dma_terminate_all_poll
    \/ bcm2708_dma_terminate_all_check
    \/ bcm2708_dma_terminate_all_collect
    \/ bcm2708_dma_terminate_all_free

SpecTimeout == Init /\ [][NextTimeout]_vars /\ WF_vars(TerminateStep)

\* the environment of SpecBuild: one client that configures the channel in
\* either direction, prepares one descriptor from any of BuildLens, submits
\* and issues it, and asks for its status while the hardware position is
\* anywhere in BuildPositions
NextBuild ==
    \/ bcm2708_dma_alloc_chan_resources(TRUE)
    \/ \E config \in BuildCfgs : bcm2708_dma_slave_config(config)
    \/ descs[1] = NoDesc /\
           \E lens \in BuildLens, direction \in Directions,
              mem \in {"ok", "nomem"} :
               bcm2708_dma_prep_dma_cyclic(BufAddr, lens[1], lens[2],
                                           direction, mem)
    \/ \E d \in DescIds : vchan_submit(d)
    \/ bcm2708_dma_issue_pending
    \/ c_desc # NULL /\
           \E source_ad \in BuildPositions, dest_ad \in BuildPositions :
               bcm2708_dma_tx_status(descs[c_desc].cookie, TRUE,
                                     source_ad, dest_ad)

SpecBuild == Init /\ [][NextBuild]_vars

\* the environment of SpecRace: one thread calls slave_config, whose struct
\* copy proceeds member by member, while another calls prepare_cyclic
NextRace ==
    \/ bcm2708_dma_alloc_chan_resources(TRUE)
    \/ \E config \in RaceCfgs \cup {RaceBadCfg} :
           bcm2708_dma_slave_config_begin(config)
    \/ \E f \in CfgFields : bcm2708_dma_slave_config_store(f)
    \/ descs[1] = NoDesc /\ \E lens \in PrepLens :
           bcm2708_dma_prep_dma_cyclic(BufAddr, lens[1], lens[2],
                                       DMA_DEV_TO_MEM, "ok")

SpecRace == Init /\ [][NextRace]_vars

\* ------------------------------------------------------------------ claims
\* the channel's software state apart from the lock
softstate == <<descs, nfree, desc_submitted, desc_issued, c_desc, cfg, cfg_copy, cyclic,
               chan_cookie, completed_cookie, allocated, irq_registered>>

\* the descriptors on the channel's pending lists
Queued == SeqToSet(desc_submitted) \cup SeqToSet(desc_issued)

\* the oldest submitted descriptor of a non-empty set
Oldest(S) == CHOOSE d \in S : \A e \in S : descs[d].cookie <= descs[e].cookie

\* frames * period_length of a descriptor
FullSize(d) ==
    IF descs[d].frames = 0 THEN 0
    ELSE descs[d].frames * descs[d].control_block_base[1].length

\* the bus address of a descriptor's first step
FirstStep(d) == descs[d].control_block_base_phys

\* C1: when terminate_all returns from a call made on a Running channel, with
\* no other entry point run meanwhile, the active slot and both lists are
\* empty and every descriptor that was active or queued at the call has been
\* freed exactly once.
C1_TerminateFreesAll ==
    [][ ( /\ last'.op = "terminate_all"
          /\ last'.ret = "0"
          /\ t_run >= 1
          /\ t_atcall \cap aborted # {} )
        => ( /\ c_desc' = NULL
             /\ desc_submitted' = << >>
             /\ desc_issued' = << >>
             /\ \A d \in t_atcall : nfree'[d] = 1 ) ]_vars

\* C2: a callback that finds the active slot empty only acknowledges the
\* interrupt: it notifies nobody, leaves the run bit as it was and changes no
\* other channel or hardware state.
C2_IdleCallbackOnlyAcks ==
    [][ ( last'.op = "callback" /\ c_desc = NULL )
        => ( /\ ~hw_int'
             /\ last'.val = 0
             /\ hw_active' = hw_active
             /\ hw_conblk' = hw_conblk
             /\ hw_abort' = hw_abort
             /\ chanvars' = chanvars
             /\ obsvars' = obsvars ) ]_vars

\* C3: a terminate_all called right after a completed terminate_all, with no
\* other entry point in between, finds nothing active and nothing queued,
\* issues no abort, polls nothing, frees nothing, leaves the channel as it
\* was and returns 0 without the timeout message.
C3_SecondTerminateNoop ==
    [][ /\ ( t_pc = "idle" /\ t_run >= 1 /\ last'.op = "terminate_all" )
           => ( /\ t_atcall' = {}
                /\ t_pc' = "collect"
                /\ hwvars' = hwvars
                /\ obsvars' = obsvars
                /\ softstate' = softstate )
        /\ ( t_pc = "collect" /\ t_run = 2 /\ last'.op = "terminate_all" )
           => ( /\ head' = << >>
                /\ t_polls = 0
                /\ hwvars' = hwvars
                /\ obsvars' = obsvars
                /\ softstate' = softstate )
        /\ ( t_pc = "free" /\ t_run = 2 /\ last'.op = "terminate_all" )
           => ( /\ last'.ret = "0"
                /\ last'.val = 0
                /\ hwvars' = hwvars
                /\ obsvars' = obsvars
                /\ softstate' = softstate
                /\ lock' = lock ) ]_vars

\* two terminate_all calls ran back to back, the second has returned, and an
\* active descriptor had been aborted
C3_Witness ==
    /\ t_run = 2
    /\ t_pc = "idle"
    /\ last.op = "terminate_all"
    /\ last.ret = "0"
    /\ aborted # {}
    /\ c_desc = NULL

\* C4: issue_pending on a channel with no active descriptor and a non-empty
\* queue moves the oldest submitted descriptor into the active slot and calls
\* bcm_dma_start once, with that descriptor's first-step address; with a
\* descriptor already active it changes neither the slot nor the hardware.
C4_IssuePendingStartsHeadOnce ==
    [][ last'.op = "issue_pending"
        => IF c_desc # NULL
           THEN /\ c_desc' = c_desc
                /\ hwvars' = hwvars
                /\ started' = started
           ELSE IF Queued # {}
           THEN /\ c_desc' = Oldest(Queued)
                /\ c_desc' \notin Queued'
                /\ Queued' = Queued \ {c_desc'}
                /\ started' = Append(started, FirstStep(Oldest(Queued)))
                /\ hw_conblk' = FirstStep(Oldest(Queued))
                /\ hw_active'
           ELSE /\ c_desc' = NULL
                /\ hwvars' = hwvars
                /\ started' = started ]_vars

\* issue_pending has run, one descriptor is active and was the only one
\* started, and a younger descriptor is still queued behind it
C4_Witness ==
    /\ last.op = "issue_pending"
    /\ c_desc # NULL
    /\ started = << FirstStep(c_desc) >>
    /\ hw_conblk = FirstStep(c_desc)
    /\ desc_issued # << >>
    /\ \A d \in Queued : descs[c_desc].cookie < descs[d].cookie

\* C5: a callback that finds an active descriptor acknowledges the interrupt,
\* notifies that descriptor once and sets the run bit; the descriptor stays
\* in the active slot, unfreed; only terminate_all empties the slot, and
\* status never reports the active descriptor's cookie complete.
C5_CallbackNotifiesAndKeeps ==
    [][ /\ ( last'.op = "callback" /\ c_desc # NULL )
           => ( /\ ~hw_int'
                /\ last'.arg = c_desc
                /\ last'.val = 1
                /\ hw_active'
                /\ c_desc' = c_desc
                /\ nfree' = nfree )
        /\ ( c_desc # NULL /\ c_desc' # c_desc )
           => last'.op = "terminate_all"
        /\ ( c_desc # NULL /\ nfree[c_desc] = 0 ) => nfree'[c_desc] = 0
        /\ ( /\ last'.op = "tx_status"
             /\ c_desc # NULL
             /\ last'.arg = descs[c_desc].cookie )
           => last'.ret # DMA_COMPLETE ]_vars

\* a callback has just notified the descriptor in the active slot, which is
\* still there with the hardware running
C5_Witness ==
    /\ last.op = "callback"
    /\ last.val = 1
    /\ c_desc # NULL
    /\ last.arg = c_desc
    /\ nfree[c_desc] = 0
    /\ hw_active
    /\ ~hw_int

\* C6: while terminate_all is in its poll loop the channel lock is free.
C6_LockFreeWhilePolling == t_pc = "poll" => lock = "free"

\* C7: every iteration of terminate_all's poll loop lowers the timeout, so it
\* reads the run bit at most TIMEOUT times; if no read found the bit clear it
\* has read it TIMEOUT times and prints the timeout message; it then leaves
\* the slot and both lists empty, drops the lock and returns 0; and a
\* terminate_all in progress always returns.
C7_TerminateBounded ==
    /\ [][ /\ ( t_pc = "poll" /\ t_pc' = "poll" /\ last'.op = "terminate_all" )
              => ( timeout' < timeout /\ timeout' >= 0 )
           /\ t_polls' <= TIMEOUT
           /\ ( t_pc = "check" /\ t_pc' = "collect" /\ ~t_sawclear )
              => ( t_polls = TIMEOUT /\ err_logged' )
           /\ ( t_pc = "collect" /\ t_pc' = "free" )
              => ( /\ c_desc' = NULL
                   /\ desc_submitted' = << >>
                   /\ desc_issued' = << >>
                   /\ lock' = "free" )
           /\ ( t_pc = "free" /\ t_pc' = "idle" )
              => ( /\ last'.ret = "0"
                   /\ err_logged => last'.val = 1 ) ]_vars
    /\ ( t_pc # "idle" ) ~> ( t_pc = "idle" )

\* terminate_all has read the run bit TIMEOUT times, never found it clear,
\* printed the message and cleared the slot, with the hardware still running
C7_Witness ==
    /\ t_pc = "collect"
    /\ err_logged
    /\ ~t_sawclear
    /\ t_polls = TIMEOUT
    /\ timeout = 0
    /\ hw_active
    /\ c_desc = NULL

C10_NoFreeWhileReferenced ==
    \A d \in DescIds :
        ( descs[d] # NoDesc /\ ( nfree[d] > 0 \/ d \in SeqToSet(head) ) )
        => ( /\ hw_conblk # FirstStep(d)
             /\ FirstStep(d) \in SeqToSet(started) => d \in aborted )

\* a descriptor has been freed and, after an abort, a callback has set the
\* run bit again on the chain the hardware was started on
C10_Witness ==
    /\ \E d \in DescIds : nfree[d] > 0
    /\ last.op = "callback"
    /\ hw_active
    /\ hw_conblk # NULL
    /\ aborted # {}
    /\ c_desc = NULL

\* C11: free_chan_resources unregisters the interrupt handler and frees the
\* descriptor in the active slot and every descriptor on the submitted and
\* issued lists.
C11_FreeResourcesReleasesAll ==
    [][ last'.op = "free_chan_resources"
        => ( /\ ~irq_registered'
             /\ \A d \in Queued : nfree'[d] >= 1
             /\ c_desc # NULL => nfree'[c_desc] >= 1 ) ]_vars

\* C15: at most one descriptor is active, the active descriptor is on neither
\* the submitted nor the issued list, and, whenever no terminate_all is in
\* progress, every descriptor whose memory is allocated is in exactly one of:
\* prepared and not submitted, queued, active.
C15_DescriptorPlaces ==
    /\ c_desc \in DescIds \cup {NULL}
    /\ c_desc \notin Queued
    /\ t_pc = "idle"
       => \A d \in Live :
              Cardinality({ place \in {"prepared", "queued", "active"} :
                  \/ place = "prepared" /\ d \in Prepared
                  \/ place = "queued" /\ d \in Queued
                  \/ place = "active" /\ d = c_desc }) = 1

\* C16: terminate_all prints its timeout message only if no read of the run
\* bit within the cap found it clear: when any poll, the last permitted one
\* included, read the bit clear, no timeout is reported.
C16_TimeoutOnlyIfStillActive ==
    [][ ( t_pc = "check" /\ last'.op = "terminate_all" )
        => ( err_logged' => ~t_sawclear ) ]_vars

\* C17: a callback notifies a descriptor only if it finds that descriptor in
\* the active slot; a descriptor whose slot terminate_all has cleared is never
\* in the slot again, so no later or racing callback notifies it, and a
\* callback changes no descriptor's memory or allocation.
C17_NotifyOnlyActiveSlot ==
    [][ /\ last'.op = "callback"
           => ( /\ last'.val >= 1 => ( c_desc # NULL /\ last'.arg = c_desc )
                /\ last'.val >= 1 => last'.arg \notin aborted
                /\ descs' = descs
                /\ nfree' = nfree
                /\ desc_submitted' = desc_submitted
                /\ desc_issued' = desc_issued )
        /\ c_desc' \notin aborted' ]_vars

\* an interrupt raised before terminate_all took the lock is served after it
\* dropped the lock and before it returned: the slot is empty, the aborted
\* descriptor is not notified
C17_Witness ==
    /\ last.op = "callback"
    /\ last.val = 0
    /\ last.arg = NULL
    /\ t_pc = "free"
    /\ aborted # {}
    /\ c_desc = NULL

\* the bus address of step i (counted from 0) of a descriptor record
StepAddr(D, i) == D.control_block_base_phys + i * CbSize

\* the sum of the step lengths of a descriptor record from step k on
RECURSIVE SumLenFrom(_, _)
SumLenFrom(D, k) ==
    IF k > Len(D.control_block_base) THEN 0
    ELSE D.control_block_base[k].length + SumLenFrom(D, k + 1)

\* C12: when period_len divides buf_len exactly into frames >= 1, a
\* successful prepare_cyclic returns a descriptor of exactly frames steps,
\* each of length period_len, step i's next pointer is the address of step
\* (i + 1) mod frames, and the descriptor's size and the sum of its step
\* lengths equal buf_len.
C12_CyclicChainShape ==
    [][ \A lens \in BuildLens, direction \in Directions :
        \A frames \in 1..lens[1] :
          ( /\ frames * lens[2] = lens[1]
            /\ bcm2708_dma_prep_dma_cyclic(BufAddr, lens[1], lens[2],
                                           direction, "ok")
            /\ last'.ret = "desc" )
          => LET D == descs'[last'.arg] IN
             /\ D.frames = frames
             /\ Len(D.control_block_base) = frames
             /\ \A i \in 0..(frames - 1) :
                    /\ D.control_block_base[i + 1].length = lens[2]
                    /\ D.control_block_base[i + 1].next =
                           StepAddr(D, (i + 1) % frames)
             /\ D.control_block_base[frames].next = StepAddr(D, 0)
             /\ D.size = lens[1]
             /\ SumLenFrom(D, 1) = lens[1] ]_vars

\* prepare_cyclic has just returned a descriptor of four steps whose last
\* step points back at the first
C12_Witness ==
    /\ last.op = "prep_dma_cyclic"
    /\ last.ret = "desc"
    /\ descs[last.arg].frames = 4
    /\ Len(descs[last.arg].control_block_base) = 4
    /\ descs[last.arg].control_block_base[4].next = StepAddr(descs[last.arg], 0)
    /\ descs[last.arg].size = 4

\* C13: in a DEV_TO_MEM descriptor returned by prepare_cyclic, step i's
\* destination is buf_addr + i * period_len, so destinations increase
\* strictly and the steps' ranges do not overlap, and every step's source is
\* the configured source address; in a MEM_TO_DEV descriptor step i's source
\* is buf_addr + i * period_len and every destination is the configured
\* destination address.
C13_StepAddresses ==
    [][ \A lens \in BuildLens, direction \in Directions :
          ( /\ bcm2708_dma_prep_dma_cyclic(BufAddr, lens[1], lens[2],
                                           direction, "ok")
            /\ last'.ret = "desc" )
          => LET D == descs'[last'.arg]
                 cb == D.control_block_base
                 mem(i) == IF direction = DMA_DEV_TO_MEM
                           THEN cb[i].dst ELSE cb[i].src
                 dev(i) == IF direction = DMA_DEV_TO_MEM
                           THEN cb[i].src ELSE cb[i].dst
             IN
             /\ D.dir = direction
             /\ \A i \in 1..Len(cb) :
                    /\ mem(i) = BufAddr + (i - 1) * lens[2]
                    /\ dev(i) = ( IF direction = DMA_DEV_TO_MEM
                                  THEN cfg.src_addr ELSE cfg.dst_addr )
             /\ \A i, j \in 1..Len(cb) :
                    i < j => mem(i) + cb[i].length <= mem(j) ]_vars

\* prepare_cyclic has just returned a MEM_TO_DEV descriptor of three steps
\* reading from three consecutive periods of the buffer into the endpoint
C13_Witness ==
    /\ last.op = "prep_dma_cyclic"
    /\ last.ret = "desc"
    /\ descs[last.arg].dir = DMA_MEM_TO_DEV
    /\ descs[last.arg].frames = 3
    /\ descs[last.arg].control_block_base[3].src = BufAddr + 4
    /\ descs[last.arg].control_block_base[3].dst = FifoAddr + 4
    /\ descs[last.arg].control_block_base[1].src = BufAddr

\* a configuration slave_config accepts: a slave direction whose endpoint
\* side is 4 bytes wide
ValidConfig(config) ==
    /\ config.direction \in { DMA_DEV_TO_MEM, DMA_MEM_TO_DEV }
    /\ config.direction = DMA_DEV_TO_MEM
       => config.src_addr_width = DMA_SLAVE_BUSWIDTH_4_BYTES
    /\ config.direction = DMA_MEM_TO_DEV
       => config.dst_addr_width = DMA_SLAVE_BUSWIDTH_4_BYTES

\* C14: slave_config with a direction that is not a slave direction, or with
\* an endpoint width other than 4 bytes for its direction, returns -EINVAL
\* and changes no channel, hardware or terminate state; a valid
\* configuration is stored and 0 returned; the stored configuration is only
\* ever the initial one or a valid one.
C14_OnlyValidConfigStored ==
    /\ [][ \A config \in BuildCfgs :
             bcm2708_dma_slave_config(config)
             => IF ValidConfig(config)
                THEN /\ last'.ret = "0"
                     /\ cfg' = config
                ELSE /\ last'.ret = "-EINVAL"
                     /\ chanvars' = chanvars
                     /\ hwvars' = hwvars
                     /\ tvars' = tvars
                     /\ obsvars' = obsvars ]_vars
    /\ []( cfg = ZeroCfg \/ ValidConfig(cfg) )

\* slave_config has just rejected a configuration and the valid MEM_TO_DEV
\* configuration stored before it is still in place
C14_Witness ==
    /\ last.op = "slave_config"
    /\ last.ret = "-EINVAL"
    /\ cfg # ZeroCfg
    /\ cfg.direction = DMA_MEM_TO_DEV
    /\ cfg.dst_addr_width = DMA_SLAVE_BUSWIDTH_4_BYTES
    /\ cfg.src_addr_width = 2

\* C18: status with a txstate for the active descriptor's cookie reads the
\* position p from the destination register for DEV_TO_MEM and from the
\* source register for MEM_TO_DEV; if p is in step k's range
\* [addr_k, addr_k + len_k) the residue is (addr_k + len_k - p) plus the
\* lengths of the steps after k, and if p is in no step's range it is 0; the
\* residue is between 0 and the descriptor's full size.
C18_ActiveResidue ==
    [][ \A source_ad \in BuildPositions, dest_ad \in BuildPositions :
          ( /\ c_desc # NULL
            /\ last'.op = "tx_status"
            /\ bcm2708_dma_tx_status(descs[c_desc].cookie, TRUE,
                                     source_ad, dest_ad) )
          => LET D == descs[c_desc]
                 cb == D.control_block_base
                 p == IF D.dir = DMA_DEV_TO_MEM THEN dest_ad ELSE source_ad
                 addr(k) == IF D.dir = DMA_DEV_TO_MEM
                            THEN cb[k].dst ELSE cb[k].src
                 inside == { k \in 1..Len(cb) :
                               addr(k) <= p /\ p < addr(k) + cb[k].length }
             IN
             /\ last'.ret = DMA_IN_PROGRESS
             /\ inside = {} => last'.val = 0
             /\ \A k \in inside :
                    last'.val = (addr(k) + cb[k].length - p)
                                + SumLenFrom(D, k + 1)
             /\ last'.val >= 0
             /\ last'.val <= FullSize(c_desc) ]_vars

\* status has just reported, for an active descriptor of three steps, a
\* residue that is not a whole number of periods: the position was inside a
\* step
C18_Witness ==
    /\ last.op = "tx_status"
    /\ last.ret = DMA_IN_PROGRESS
    /\ c_desc # NULL
    /\ last.arg = descs[c_desc].cookie
    /\ descs[c_desc].frames = 3
    /\ last.val = 3
    /\ FullSize(c_desc) = 6

\* C20: every descriptor prepare_cyclic has returned has frames >= 1 and at
\* least one control block, so the descriptor in the active slot, on which
\* issue_pending started the hardware, has at least one step.
C20_NoZeroStepDescriptor ==
    /\ \A d \in DescIds :
           descs[d] # NoDesc
           => ( descs[d].frames >= 1 /\ descs[d].control_block_base # << >> )
    /\ c_desc # NULL => descs[c_desc].control_block_base # << >>

\* C19: c->cfg is read and written only under the channel lock, so
\* prepare_cyclic never reads it between two stores of a slave_config: every
\* descriptor's endpoint address and peripheral map id are those of one
\* configuration passed to slave_config.
C19_ConfigNotTorn ==
    \A d \in DescIds :
        descs[d] # NoDesc
        => \E config \in RaceCfgs :
               \A i \in 1..Len(descs[d].control_block_base) :
                   /\ descs[d].control_block_base[i].src = config.src_addr
                   /\ descs[d].control_block_base[i].per_map = config.slave_id

====
